---- MODULE Spec2Model ----
(***************************************************************************)
(* Model of the option-position dashboard of src/app.py: one script run    *)
(* loads the worksheet, resolves prices through a TTL cache, enriches the  *)
(* positions, renders KPI / alerts / safety matrix / full list, and may     *)
(* append one position or delete a batch of rows.                           *)
(*                                                                           *)
(* Representation.  A worksheet cell is text.  Floats are records: a       *)
(* number is [nan |-> FALSE, v |-> n], NaN is [nan |-> TRUE, v |-> 0]; a    *)
(* percentage is an exact fraction [nan, n, d] with d > 0 (the model has    *)
(* no rounding; prices and strikes are small integers).  Dates are day      *)
(* ordinals of a calendar fragment, 2024-01-01 = 1, January having 31 days  *)
(* and February 29.                                                         *)
(***************************************************************************)
EXTENDS Integers, Sequences, FiniteSets, TLC

VARIABLES
    sheet,        \* the worksheet: sequence of rows, sheet[a] is the row at address a
    loadedSheet,  \* history: the worksheet as it was when this run loaded it
    loadOk,       \* history: load_data of this run did not take its except branch
    df,           \* the DataFrame of the running script
    pc,           \* position of the running script
    now,          \* wall clock, in half seconds
    cache,        \* st.cache_data store of get_current_prices: symbol list -> entry
    fetchLog,     \* history: time of the last external query, per symbol and per list
    lastResolve,  \* history: what the last call of get_current_prices did
    kpi, alerts, matrix,   \* what display_kpi / display_alerts / display_safety_matrix rendered
    marked,       \* history: the records the user ticked in the full list
    pending,      \* delete_positions_batch: addresses still to delete, in loop order
    issued,       \* history: addresses of the delete calls that returned, in call order
    removedRows,  \* history: the row each of those calls removed from the worksheet
    msg,          \* the toast or error the last operation displayed
    lastOp,       \* history: the last store operation of the session
    ops,          \* history: store operations the user has asked for in this session
    calc          \* inputs and outputs of the pure-function specification

vars == <<sheet, loadedSheet, loadOk, df, pc, now, cache, fetchLog, lastResolve,
          kpi, alerts, matrix, marked, pending, issued, removedRows, msg, lastOp, ops, calc>>

----------------------------------------------------------------------------
(* Bounds *)

MaxRows == 3          \* data rows the worksheet may hold
TickStep == 120       \* half seconds that pass between two runs
MaxTime == 120        \* no time passes between runs beyond this
MaxOps == 2           \* add and delete requests of one session

(* Program constants *)

TTL == 60                 \* seconds
SleepAfterDelete == 1     \* time.sleep(0.5), in half seconds
ContractMultiplier == 100
HighRiskPct == 5
ExpiringDays == 7

----------------------------------------------------------------------------
(* Values *)

Num(n) == [nan |-> FALSE, v |-> n]
NaN == [nan |-> TRUE, v |-> 0]
Rat(n, d) == [nan |-> FALSE, n |-> n, d |-> d]
RatNaN == [nan |-> TRUE, n |-> 0, d |-> 1]
NaT == [nat |-> TRUE, d |-> 0]
Date(d) == [nat |-> FALSE, d |-> d]

\* r < k for a percentage r and an integer k; every comparison with NaN is false
RatLt(r, k) == (~r.nan) /\ r.n < k * r.d

\* the texts that parse as a date, with their day ordinal
DateOrdinal ==
    ("2024-01-13" :> 13) @@ ("2024-01-14" :> 14) @@ ("2024-01-15" :> 15) @@
    ("2024-01-19" :> 19) @@ ("2024-02-16" :> 47)

\* the texts that parse as a number, with their value
NumeralValue ==
    ("10" :> 10) @@ ("20" :> 20) @@ ("-1" :> -1) @@ ("1" :> 1) @@ ("2" :> 2)

to_numeric(text) ==
    IF text \in DOMAIN NumeralValue THEN Num(NumeralValue[text]) ELSE NaN

to_datetime(text) ==
    IF text \in DOMAIN DateOrdinal THEN Date(DateOrdinal[text]) ELSE NaT

\* str(date) and the cell text of a number written by append_row
DateText(d) == CHOOSE t \in DOMAIN DateOrdinal : DateOrdinal[t] = d
NumeralText(n) == CHOOSE t \in DOMAIN NumeralValue : NumeralValue[t] = n

\* strftime('%Y-%m')
ExpiryMonthOf(d) ==
    IF d <= 31 THEN "2024-01" ELSE IF d <= 60 THEN "2024-02" ELSE "2024-03"

\* pd.Timestamp.now().normalize() and datetime.now().strftime("%Y-%m-%d")
Today == DateOrdinal["2024-01-15"]
TodayText == DateText(Today)

Abs(n) == IF n < 0 THEN -n ELSE n

\* seconds on the clock of the model
HalfSeconds(seconds) == 2 * seconds

\* time.sleep(1) of add_position
SleepAfterAdd == HalfSeconds(1)

Range(s) == {s[i] : i \in 1..Len(s)}

----------------------------------------------------------------------------
(* The worksheet *)

Row(sym, typ, strike, expiry, qty, entry) ==
    [Symbol |-> sym, Type |-> typ, Strike |-> strike, Expiry |-> expiry,
     Quantity |-> qty, EntryDate |-> entry]

Header == Row("Symbol", "Type", "Strike", "Expiry", "Quantity", "EntryDate")
BlankRow == Row("", "", "", "", "", "")

\* worksheet.append_row and worksheet.delete_rows of the store
append_row(ws, row) == Append(ws, row)
RowAt(ws, idx) == IF idx \in 1..Len(ws) THEN ws[idx] ELSE BlankRow
delete_rows(ws, idx) ==
    IF idx \in 1..Len(ws)
    THEN SubSeq(ws, 1, idx - 1) \o SubSeq(ws, idx + 1, Len(ws))
    ELSE ws

\* init_sheet: a worksheet without any value gets the header row
init_sheet(ws) == IF ws = <<>> THEN append_row(ws, Header) ELSE ws

\* get_all_records: one record per row below the header
get_all_records(ws) == IF Len(ws) <= 1 THEN <<>> ELSE SubSeq(ws, 2, Len(ws))

\* the worksheets a session may start from
InitSheets ==
    { <<>>,
      <<Header,
        Row("A", "Put", "20", "2024-01-13", "-1", "2024-01-13"),
        Row("B", "Call", "abc", "2024-02-16", "2", "2024-01-13"),
        Row("A", "Put", "10", "2024-01-14", "-1", "2024-01-13")>>,
      <<Header,
        Row("B", "Put", "10", "n/a", "-1", "2024-01-13"),
        Row("A", "Call", "20", "2024-02-16", "", "2024-01-13"),
        Row("B", "Put", "20", "2024-01-19", "-1", "2024-01-13")>>,
      <<Header,
        Row("A", "Put", "10", "2024-02-16", "-1", "2024-01-13"),
        Row("B", "Call", "10", "2024-01-19", "2", "2024-01-13"),
        Row("A", "Call", "20", "2024-01-15", "-1", "2024-01-13")>> }

----------------------------------------------------------------------------
(* load_data *)

\* df['_row_index'] = df.index + 2, for the 0-based index of the record
row_index_off_by_one(idx0) == idx0 + 1
row_index(idx0) == idx0 + 2

\* the coerced record of data row number n (1-based) of the records
LoadedRecord(rec, n) ==
    [Symbol |-> rec.Symbol, Type |-> rec.Type,
     Strike |-> to_numeric(rec.Strike),
     Expiry |-> to_datetime(rec.Expiry),
     Quantity |-> to_numeric(rec.Quantity),
     EntryDate |-> rec.EntryDate,
     _row_index |-> row_index(n - 1)]

\* df.dropna(subset=['Expiry'])
dropna_Expiry(s) == LET Keep(r) == ~r.Expiry.nat IN SelectSeq(s, Keep)

\* yesterday = now().normalize() - 1 day ; df[df['Expiry'] >= yesterday]
yesterday_is_today == Today
yesterday == Today - 1
Retained(r) == r.Expiry.d >= yesterday
retention_filter(s) == SelectSeq(s, Retained)

\* df.sort_values(by='Expiry'): ascending, ties in their previous order
RECURSIVE InsertByExpiry(_, _)
InsertByExpiry(r, s) ==
    IF s = <<>> THEN <<r>>
    ELSE IF s[Len(s)].Expiry.d <= r.Expiry.d THEN Append(s, r)
    ELSE Append(InsertByExpiry(r, SubSeq(s, 1, Len(s) - 1)), s[Len(s)])

RECURSIVE sort_by_Expiry(_)
sort_by_Expiry(s) ==
    IF s = <<>> THEN <<>>
    ELSE InsertByExpiry(s[Len(s)], sort_by_Expiry(SubSeq(s, 1, Len(s) - 1)))

load_data(ws) ==
    LET data == get_all_records(ws)
        frame == [n \in 1..Len(data) |-> LoadedRecord(data[n], n)]
    IN  IF data = <<>> THEN <<>>
        ELSE sort_by_Expiry(retention_filter(dropna_Expiry(frame)))

----------------------------------------------------------------------------
(* get_current_prices and its st.cache_data(ttl=60) store *)

Symbols == {"A", "B"}
PriceSet == {0, 20}      \* 0 stands for every failure of the download

RECURSIVE unique(_)
unique(s) ==
    IF s = <<>> THEN <<>>
    ELSE LET u == unique(SubSeq(s, 1, Len(s) - 1))
         IN  IF s[Len(s)] \in Range(u) THEN u ELSE Append(u, s[Len(s)])

\* a cache entry is [key |-> the symbols argument, prices |-> the returned dict, at |-> its creation time]
CacheFresh(entry, t) == t < entry.at + HalfSeconds(TTL)
CacheLookup(c, key, t) == {e \in c : e.key = key /\ CacheFresh(e, t)}
CacheStore(c, key, prices, t) ==
    {e \in c : e.key # key /\ CacheFresh(e, t)} \cup
    {[key |-> key, prices |-> prices, at |-> t]}

\* the dicts the body of get_current_prices may return for these symbols
PriceMaps(symbols) == [Range(symbols) -> PriceSet]

\* the lists of distinct symbols a frame may hold
SymbolLists == {<<>>, <<"A">>, <<"B">>, <<"A", "B">>, <<"B", "A">>}

\* history of external queries, independent of the cache
LogFetch(log, key, t) ==
    {f \in log : f.key # key /\ t - f.at < HalfSeconds(TTL)} \cup {[key |-> key, at |-> t]}
LastSymbolFetch(log, sym) ==
    LET ts == {f.at : f \in {g \in log : sym \in Range(g.key)}}
    IN  IF ts = {} THEN -1 ELSE CHOOSE t \in ts : \A u \in ts : u <= t

NoResolve == [key |-> <<>>, queried |-> FALSE, at |-> 0,
              prevSymbol |-> [s \in {} |-> -1]]

----------------------------------------------------------------------------
(* process_market_data *)

\* calculate_metrics with the status test taking a price at the strike as breached
calculate_metrics_at_strike(current, strike, type_) ==
    IF current <= 0 THEN [safety |-> Rat(0, 1), status |-> "", risk |-> Rat(0, 1)]
    ELSE IF strike.nan
         THEN [safety |-> RatNaN, status |-> "green", risk |-> Rat(0, 1)]
    ELSE LET n == IF type_ = "Put" THEN (current - strike.v) * 100
                  ELSE (strike.v - current) * 100
             status == IF type_ = "Put" /\ current <= strike.v THEN "red"
                       ELSE IF type_ = "Call" /\ current >= strike.v THEN "red"
                       ELSE "green"
             risk == IF 5 * current - n > 0 THEN Rat(5 * current - n, current)
                     ELSE Rat(0, 1)
         IN  [safety |-> Rat(n, current), status |-> status, risk |-> risk]

\* calculate_metrics(row) -> [Safety %, Status, Risk Score]
calculate_metrics(current, strike, type_) ==
    IF current <= 0 THEN [safety |-> Rat(0, 1), status |-> "", risk |-> Rat(0, 1)]
    ELSE IF strike.nan
         THEN [safety |-> RatNaN, status |-> "green", risk |-> Rat(0, 1)]
    ELSE LET n == IF type_ = "Put" THEN (current - strike.v) * 100
                  ELSE (strike.v - current) * 100
             status == IF type_ = "Put" /\ current < strike.v THEN "red"
                       ELSE IF type_ = "Call" /\ current > strike.v THEN "red"
                       ELSE "green"
             risk == IF 5 * current - n > 0 THEN Rat(5 * current - n, current)
                     ELSE Rat(0, 1)
         IN  [safety |-> Rat(n, current), status |-> status, risk |-> risk]

get_bucket_closed_above(val) ==
    IF RatLt(val, 0) THEN "<0%"
    ELSE IF (~val.nan) /\ val.n <= 5 * val.d THEN "0-5%"
    ELSE IF (~val.nan) /\ val.n <= 10 * val.d THEN "5-10%"
    ELSE ">10%"

get_bucket(val) ==
    IF RatLt(val, 0) THEN "<0%"
    ELSE IF RatLt(val, 5) THEN "0-5%"
    ELSE IF RatLt(val, 10) THEN "5-10%"
    ELSE ">10%"

\* df['Strike'] * df['Quantity'].abs() * 100
notional(strike, quantity) ==
    IF strike.nan \/ quantity.nan THEN NaN
    ELSE Num(strike.v * Abs(quantity.v) * ContractMultiplier)

EnrichedRecord(r, price_map) ==
    LET current == IF r.Symbol \in DOMAIN price_map THEN price_map[r.Symbol] ELSE 0
        m == calculate_metrics(current, r.Strike, r.Type)
    IN  [Symbol |-> r.Symbol, Type |-> r.Type, Strike |-> r.Strike,
         Expiry |-> r.Expiry, Quantity |-> r.Quantity, EntryDate |-> r.EntryDate,
         _row_index |-> r._row_index,
         CurrentPrice |-> current,
         Notional |-> notional(r.Strike, r.Quantity),
         DaysLeft |-> r.Expiry.d - Today,
         Safety |-> m.safety, Status |-> m.status, RiskScore |-> m.risk,
         Bucket |-> get_bucket(m.safety),
         ExpiryMonth |-> ExpiryMonthOf(r.Expiry.d)]

process_market_data(frame, price_map) ==
    [i \in 1..Len(frame) |-> EnrichedRecord(frame[i], price_map)]

----------------------------------------------------------------------------
(* display_kpi, display_alerts, display_safety_matrix *)

\* Series.sum() of the Notional column: NaN is skipped
RECURSIVE NotionalSum(_)
NotionalSum(s) ==
    IF s = <<>> THEN 0
    ELSE (IF Head(s).Notional.nan THEN 0 ELSE Head(s).Notional.v) + NotionalSum(Tail(s))

OfType(s, t) == LET P(r) == r.Type = t IN SelectSeq(s, P)
HighRisk(s) == LET P(r) == RatLt(r.Safety, HighRiskPct) IN SelectSeq(s, P)
ExpiringSoon(s) == LET P(r) == r.Expiry.d <= Today + ExpiringDays IN SelectSeq(s, P)

display_kpi(frame) ==
    [total_count |-> Len(frame),
     total_p |-> Len(OfType(frame, "Put")), total_c |-> Len(OfType(frame, "Call")),
     total_notional |-> NotionalSum(frame),
     notional_p |-> NotionalSum(OfType(frame, "Put")),
     notional_c |-> NotionalSum(OfType(frame, "Call")),
     total_risk |-> Len(HighRisk(frame)),
     risk_p |-> Len(OfType(HighRisk(frame), "Put")),
     risk_c |-> Len(OfType(HighRisk(frame), "Call")),
     total_exp |-> Len(ExpiringSoon(frame)),
     exp_p |-> Len(OfType(ExpiringSoon(frame), "Put")),
     exp_c |-> Len(OfType(ExpiringSoon(frame), "Call"))]

display_alerts(frame) ==
    [expiring_soon |-> ExpiringSoon(frame), high_risk |-> HighRisk(frame)]

desired_order == <<"<0%", "0-5%", "5-10%", ">10%">>

\* the rows of a month, of a month and bucket, and those pivot_table keeps for its margins
InMonth(s, m) == LET P(r) == r.ExpiryMonth = m IN SelectSeq(s, P)
InBucket(s, b) == LET P(r) == r.Bucket = b IN SelectSeq(s, P)
NotNaNotional(s) == LET P(r) == ~r.Notional.nan IN SelectSeq(s, P)

\* pivot_table(index='ExpiryMonth', columns='Bucket', values='Notional', aggfunc='sum',
\*             fill_value=0, margins=True, margins_name='Total') and the column selection
display_safety_matrix(frame, view_type) ==
    LET filtered_df == OfType(frame, view_type)
        months == {filtered_df[i].ExpiryMonth : i \in 1..Len(filtered_df)}
        buckets == {filtered_df[i].Bucket : i \in 1..Len(filtered_df)}
        InOrder(b) == b \in buckets
        existing_cols == SelectSeq(desired_order, InOrder)
        margin_data == NotNaNotional(filtered_df)
    IN  [shown |-> filtered_df # <<>>,
         view |-> view_type,
         index |-> months,
         columns |-> existing_cols,
         cell |-> [m \in months |-> [b \in Range(existing_cols) |->
                      NotionalSum(InBucket(InMonth(filtered_df, m), b))]],
         total |-> [m \in months |->
                      IF InMonth(margin_data, m) = <<>> THEN NaN
                      ELSE Num(NotionalSum(InMonth(margin_data, m)))],
         bottom |-> [b \in Range(existing_cols) |-> NotionalSum(InBucket(margin_data, b))],
         grand |-> NotionalSum(margin_data)]

NoKpi == display_kpi(<<>>)
NoAlerts == display_alerts(<<>>)
NoMatrix == display_safety_matrix(<<>>, "Put")

----------------------------------------------------------------------------
(* display_full_list and delete_positions_batch *)

\* df_view after the symbol filter; an empty selection shows everything
df_view(frame, selected_syms) ==
    IF selected_syms = {} THEN frame
    ELSE LET P(r) == r.Symbol \in selected_syms IN SelectSeq(frame, P)

\* rows_to_delete['_row_index'].tolist() for the ticked positions of the view
indices_to_del(view, ticks) ==
    LET P(i) == i \in ticks
        picked == SelectSeq([i \in 1..Len(view) |-> i], P)
    IN  [k \in 1..Len(picked) |-> view[picked[k]]._row_index]

RECURSIVE sorted_ascending(_)
sorted_ascending(s) ==
    IF s = <<>> THEN <<>>
    ELSE LET mn == CHOOSE i \in 1..Len(s) : \A j \in 1..Len(s) : s[i] <= s[j]
         IN  <<s[mn]>> \o sorted_ascending(SubSeq(s, 1, mn - 1) \o SubSeq(s, mn + 1, Len(s)))

\* sorted(row_indices, reverse=True)
RECURSIVE sorted_reverse(_)
sorted_reverse(s) ==
    IF s = <<>> THEN <<>>
    ELSE LET mx == CHOOSE i \in 1..Len(s) : \A j \in 1..Len(s) : s[j] <= s[i]
         IN  <<s[mx]>> \o sorted_reverse(SubSeq(s, 1, mx - 1) \o SubSeq(s, mx + 1, Len(s)))

\* what the toast / error of an operation says: its kind, the count it shows,
\* and the row addresses its text names
Message(kind, count) == [kind |-> kind, count |-> count, addresses |-> <<>>]
NoMessage == Message("none", 0)

----------------------------------------------------------------------------
(* The script, one run after the other *)

\* the values the add form can submit
AddOrders == {<<"A", "Put", "Sell">>, <<"B", "Call", "Buy">>}   \* symbol, type, action
AddStrikes == {0, 10}
AddExpiries == {DateOrdinal["2024-01-19"]}
AddQuantities == {1}
OptionTypes == {"Put", "Call"}

CalcIdle == [phase |-> "idle", type_ |-> "Put", strike |-> NaN, current |-> 0,
             val |-> RatNaN, safety |-> RatNaN, status |-> "", risk |-> RatNaN,
             bucket |-> ""]

Init ==
    /\ sheet \in InitSheets
    /\ loadedSheet = <<>>
    /\ loadOk = FALSE
    /\ df = <<>>
    /\ pc = "start"
    /\ now = 0
    /\ cache = {}
    /\ fetchLog = {}
    /\ lastResolve = NoResolve
    /\ kpi = NoKpi
    /\ alerts = NoAlerts
    /\ matrix = NoMatrix
    /\ marked = <<>>
    /\ pending = <<>>
    /\ issued = <<>>
    /\ removedRows = <<>>
    /\ msg = NoMessage
    /\ lastOp = "none"
    /\ ops = 0
    /\ calc = CalcIdle

\* where the script goes on after display_input_form
AfterForm(frame) == IF frame = <<>> THEN "done" ELSE "views"

add_position_without_rerun(frame) == AfterForm(frame)

\* where st.rerun() of add_position takes the script
add_position_next(frame) == "start"

\* where st.rerun() of delete_positions_batch takes the script
delete_batch_next(frame) == "start"

\* load_data raises when the sheet has records and their columns are not the header's
ColumnsMissing(ws) == Len(ws) > 1 /\ ws[1] # Header

\* main script, lines 403-408: get_sheet, init_sheet, load_data
Start ==
    /\ pc = "start"
    /\ ~ColumnsMissing(init_sheet(sheet))
    /\ sheet' = init_sheet(sheet)
    /\ loadedSheet' = sheet'
    /\ loadOk' = TRUE
    /\ df' = load_data(sheet')
    /\ pc' = IF df' = <<>> THEN "form" ELSE "process"
    /\ kpi' = NoKpi /\ alerts' = NoAlerts /\ matrix' = NoMatrix
    /\ marked' = <<>> /\ pending' = <<>> /\ issued' = <<>> /\ removedRows' = <<>>
    /\ msg' = NoMessage
    /\ lastResolve' = NoResolve
    /\ UNCHANGED <<now, cache, fetchLog, lastOp, ops, calc>>

\* the same with init_sheet taking its except branch: the error is shown, the sheet
\* is left as it is and the script goes on to load_data
StartInitFail ==
    /\ pc = "start"
    /\ ~ColumnsMissing(sheet)
    /\ loadedSheet' = sheet
    /\ loadOk' = TRUE
    /\ df' = load_data(sheet)
    /\ pc' = IF df' = <<>> THEN "form" ELSE "process"
    /\ kpi' = NoKpi /\ alerts' = NoAlerts /\ matrix' = NoMatrix
    /\ marked' = <<>> /\ pending' = <<>> /\ issued' = <<>> /\ removedRows' = <<>>
    /\ msg' = Message("error", 0)
    /\ lastResolve' = NoResolve
    /\ UNCHANGED <<sheet, now, cache, fetchLog, lastOp, ops, calc>>

\* the same with load_data failing (the store cannot be read, or a column is missing):
\* it reports the error and returns an empty frame; init_sheet may have failed as well
StartLoadFail ==
    /\ pc = "start"
    /\ sheet' \in {sheet, init_sheet(sheet)}
    /\ loadedSheet' = sheet'
    /\ loadOk' = FALSE
    /\ df' = <<>>
    /\ pc' = "form"
    /\ kpi' = NoKpi /\ alerts' = NoAlerts /\ matrix' = NoMatrix
    /\ marked' = <<>> /\ pending' = <<>> /\ issued' = <<>> /\ removedRows' = <<>>
    /\ msg' = Message("error", 0)
    /\ lastResolve' = NoResolve
    /\ UNCHANGED <<now, cache, fetchLog, lastOp, ops, calc>>

\* a run without a worksheet: 'sheet_id' is missing (st.stop, lines 10-14) or get_sheet
\* returns None (lines 49-57, 405, 429-430); errors are shown and the run ends with
\* nothing loaded, no form and no view
StartNoSheet ==
    /\ pc = "start"
    /\ loadOk' = FALSE
    /\ df' = <<>>
    /\ pc' = "done"
    /\ kpi' = NoKpi /\ alerts' = NoAlerts /\ matrix' = NoMatrix
    /\ marked' = <<>> /\ pending' = <<>> /\ issued' = <<>> /\ removedRows' = <<>>
    /\ msg' = Message("error", 0)
    /\ lastResolve' = NoResolve
    /\ UNCHANGED <<sheet, loadedSheet, now, cache, fetchLog, lastOp, ops, calc>>

SymbolsOf(frame) == unique([i \in 1..Len(frame) |-> frame[i].Symbol])

Resolved(key, queried) ==
    [key |-> key, queried |-> queried, at |-> now,
     prevSymbol |-> [s \in Range(key) |-> LastSymbolFetch(fetchLog, s)]]

\* process_market_data and display_kpi, get_current_prices answered by the cache
ProcessCached ==
    /\ pc = "process"
    /\ LET symbols == SymbolsOf(df)
           hit == CacheLookup(cache, symbols, now)
       IN  /\ hit # {}
           /\ df' = process_market_data(df, (CHOOSE e \in hit : TRUE).prices)
           /\ lastResolve' = Resolved(symbols, FALSE)
    /\ kpi' = display_kpi(df')
    /\ pc' = "form"
    /\ UNCHANGED <<sheet, loadedSheet, loadOk, now, cache, fetchLog, alerts, matrix,
                   marked, pending, issued, removedRows, msg, lastOp, ops, calc>>

\* the same, get_current_prices running its body: one download for the whole list
ProcessFetch(prices) ==
    /\ pc = "process"
    /\ LET symbols == SymbolsOf(df)
       IN  /\ CacheLookup(cache, symbols, now) = {}
           /\ prices \in PriceMaps(symbols)
           /\ cache' = CacheStore(cache, symbols, prices, now)
           /\ fetchLog' = LogFetch(fetchLog, symbols, now)
           /\ lastResolve' = Resolved(symbols, TRUE)
           /\ df' = process_market_data(df, prices)
    /\ kpi' = display_kpi(df')
    /\ pc' = "form"
    /\ UNCHANGED <<sheet, loadedSheet, loadOk, now, alerts, matrix,
                   marked, pending, issued, removedRows, msg, lastOp, ops, calc>>

\* display_input_form with the button pressed on a complete form: add_position with
\* append_row succeeding, up to its toast
AddPosition(symbol_in, type_in, side_in, strike_in, expiry_in, qty_in) ==
    /\ pc = "form"
    /\ symbol_in # "" /\ strike_in > 0
    /\ Len(sheet) <= MaxRows
    /\ ops < MaxOps
    /\ ops' = ops + 1
    /\ LET final_qty == IF side_in = "Sell" THEN -qty_in ELSE qty_in
           row == Row(symbol_in, type_in, NumeralText(strike_in), DateText(expiry_in),
                      NumeralText(final_qty), TodayText)
       IN  sheet' = append_row(sheet, row)
    /\ msg' = Message("toast", 1)
    /\ lastOp' = "add"
    /\ pc' = "added"
    /\ UNCHANGED <<loadedSheet, loadOk, df, now, cache, fetchLog, lastResolve, kpi, alerts,
                   matrix, marked, pending, issued, removedRows, calc>>

\* add_position goes on: time.sleep(1), then st.rerun()
AddRerun ==
    /\ pc = "added"
    /\ now' = now + SleepAfterAdd
    /\ cache' = {e \in cache : CacheFresh(e, now')}
    /\ fetchLog' = {f \in fetchLog : now' - f.at < HalfSeconds(TTL)}
    /\ pc' = add_position_next(df)
    /\ UNCHANGED <<sheet, loadedSheet, loadOk, df, lastResolve, kpi, alerts, matrix,
                   marked, pending, issued, removedRows, msg, lastOp, ops, calc>>

\* the same with append_row raising: the error is shown and the script goes on
AddPositionFail ==
    /\ pc = "form"
    /\ msg' = Message("error", 0)
    /\ lastOp' = "addfail"
    /\ pc' = AfterForm(df)
    /\ UNCHANGED <<sheet, loadedSheet, loadOk, df, now, cache, fetchLog, lastResolve, kpi,
                   alerts, matrix, marked, pending, issued, removedRows, ops, calc>>

\* the button pressed on an incomplete form: a warning, nothing is written
AddRejected(symbol_in, strike_in) ==
    /\ pc = "form"
    /\ ~(symbol_in # "" /\ strike_in > 0)
    /\ msg' = Message("warning", 0)
    /\ lastOp' = "none"
    /\ pc' = AfterForm(df)
    /\ UNCHANGED <<sheet, loadedSheet, loadOk, df, now, cache, fetchLog, lastResolve, kpi,
                   alerts, matrix, marked, pending, issued, removedRows, ops, calc>>

\* the button not pressed
FormIdle ==
    /\ pc = "form"
    /\ lastOp' = "none"
    /\ pc' = AfterForm(df)
    /\ UNCHANGED <<sheet, loadedSheet, loadOk, df, now, cache, fetchLog, lastResolve, kpi,
                   alerts, matrix, marked, pending, issued, removedRows, msg, ops, calc>>

\* display_alerts and display_safety_matrix for the type chosen on the radio
Views(view_type) ==
    /\ pc = "views"
    /\ alerts' = display_alerts(df)
    /\ matrix' = display_safety_matrix(df, view_type)
    /\ pc' = "list"
    /\ UNCHANGED <<sheet, loadedSheet, loadOk, df, now, cache, fetchLog, lastResolve, kpi,
                   marked, pending, issued, removedRows, msg, lastOp, ops, calc>>

\* display_full_list with rows ticked and the delete button pressed:
\* delete_positions_batch starts with the sorted addresses
ConfirmDelete(selected_syms, ticks) ==
    /\ pc = "list"
    /\ selected_syms \subseteq Range(SymbolsOf(df))
    /\ LET view == df_view(df, selected_syms)
       IN  /\ ticks \subseteq 1..Len(view)
           /\ ticks # {}
           /\ marked' = LET P(i) == i \in ticks
                            picked == SelectSeq([i \in 1..Len(view) |-> i], P)
                        IN  [k \in 1..Len(picked) |-> view[picked[k]]]
           /\ pending' = sorted_reverse(indices_to_del(view, ticks))
    /\ ops < MaxOps
    /\ ops' = ops + 1
    /\ pc' = "deleting"
    /\ UNCHANGED <<sheet, loadedSheet, loadOk, df, now, cache, fetchLog, lastResolve, kpi,
                   alerts, matrix, issued, removedRows, msg, lastOp, calc>>

\* display_full_list without a delete: the run ends
FullListIdle ==
    /\ pc = "list"
    /\ pc' = "done"
    /\ UNCHANGED <<sheet, loadedSheet, loadOk, df, now, cache, fetchLog, lastResolve, kpi,
                   alerts, matrix, marked, pending, issued, removedRows, msg, lastOp, ops, calc>>

\* one iteration of the loop of delete_positions_batch, delete_rows succeeding;
\* after the last one the toast shows the count
DeleteRow ==
    /\ pc = "deleting"
    /\ pending # <<>>
    /\ LET idx == Head(pending)
       IN  /\ sheet' = delete_rows(sheet, idx)
           /\ issued' = Append(issued, idx)
           /\ removedRows' = Append(removedRows, RowAt(sheet, idx))
    /\ pending' = Tail(pending)
    /\ IF pending' = <<>>
       THEN /\ msg' = Message("toast", Len(issued'))
            /\ lastOp' = "delete"
            /\ pc' = "deleted"
       ELSE UNCHANGED <<msg, lastOp, pc>>
    /\ UNCHANGED <<loadedSheet, loadOk, df, now, cache, fetchLog, lastResolve, kpi, alerts,
                   matrix, marked, ops, calc>>

\* delete_positions_batch goes on after its toast: time.sleep(0.5), then st.rerun()
DeleteRerun ==
    /\ pc = "deleted"
    /\ now' = now + SleepAfterDelete
    /\ cache' = {e \in cache : CacheFresh(e, now')}
    /\ fetchLog' = {f \in fetchLog : now' - f.at < HalfSeconds(TTL)}
    /\ pc' = delete_batch_next(df)
    /\ UNCHANGED <<sheet, loadedSheet, loadOk, df, lastResolve, kpi, alerts, matrix,
                   marked, pending, issued, removedRows, msg, lastOp, ops, calc>>

\* the same with delete_rows raising: the loop is left, the error is shown, the run ends
DeleteRowFail ==
    /\ pc = "deleting"
    /\ pending # <<>>
    /\ msg' = Message("error", 0)
    /\ lastOp' = "delfail"
    /\ pc' = "done"
    /\ UNCHANGED <<sheet, loadedSheet, loadOk, df, now, cache, fetchLog, lastResolve, kpi,
                   alerts, matrix, marked, pending, issued, removedRows, ops, calc>>

\* the next user interaction or page reload runs the script again
Rerun ==
    /\ pc = "done"
    /\ pc' = "start"
    /\ UNCHANGED <<sheet, loadedSheet, loadOk, df, now, cache, fetchLog, lastResolve, kpi,
                   alerts, matrix, marked, pending, issued, removedRows, msg, lastOp, ops, calc>>

\* time passes between two runs; the entries older than the TTL are gone
Tick ==
    /\ pc = "done"
    /\ now + TickStep <= MaxTime
    /\ now' = now + TickStep
    /\ cache' = {e \in cache : CacheFresh(e, now')}
    /\ fetchLog' = {f \in fetchLog : now' - f.at < HalfSeconds(TTL)}
    /\ UNCHANGED <<sheet, loadedSheet, loadOk, df, pc, lastResolve, kpi,
                   alerts, matrix, marked, pending, issued, removedRows, msg, lastOp, ops, calc>>

Next ==
    \/ Start
    \/ StartInitFail
    \/ StartLoadFail
    \/ StartNoSheet
    \/ ProcessCached
    \/ \E prices \in UNION {PriceMaps(symbols) : symbols \in SymbolLists} : ProcessFetch(prices)
    \/ \E order \in AddOrders, strike_in \in AddStrikes, expiry_in \in AddExpiries,
          qty_in \in AddQuantities :
            AddPosition(order[1], order[2], order[3], strike_in, expiry_in, qty_in)
    \/ AddRerun
    \/ AddPositionFail
    \/ \E symbol_in \in Symbols, strike_in \in AddStrikes : AddRejected(symbol_in, strike_in)
    \/ FormIdle
    \/ \E view_type \in OptionTypes : Views(view_type)
    \/ \E selected_syms \in SUBSET Symbols, ticks \in SUBSET (1..Len(df)) :
            ConfirmDelete(selected_syms, ticks)
    \/ FullListIdle
    \/ DeleteRow
    \/ DeleteRerun
    \/ DeleteRowFail
    \/ Rerun
    \/ Tick

Spec == Init /\ [][Next]_vars

----------------------------------------------------------------------------
(* The pure functions of the enrichment on their own *)

MaxCalcStrike == 22   \* strikes 18..MaxCalcStrike against a price of 20
MaxCalcHalves == 22   \* margins -1, -0.5, ..., MaxCalcHalves / 2

CalcTypes == {"Put", "Call", "put"}
CalcStrikes == {NaN} \cup {Num(k) : k \in 18..MaxCalcStrike}
CalcPrices == {0, 20}
CalcVals == {RatNaN} \cup {Rat(n, 2) : n \in (-2)..MaxCalcHalves}

InitCalc ==
    /\ sheet = <<>>
    /\ loadedSheet = <<>>
    /\ loadOk = FALSE
    /\ df = <<>>
    /\ pc = "start"
    /\ now = 0
    /\ cache = {}
    /\ fetchLog = {}
    /\ lastResolve = NoResolve
    /\ kpi = NoKpi
    /\ alerts = NoAlerts
    /\ matrix = NoMatrix
    /\ marked = <<>>
    /\ pending = <<>>
    /\ issued = <<>>
    /\ removedRows = <<>>
    /\ msg = NoMessage
    /\ lastOp = "none"
    /\ ops = 0
    /\ calc \in [phase : {"input"}, type_ : CalcTypes, strike : CalcStrikes,
                 current : CalcPrices, val : CalcVals, safety : {RatNaN},
                 status : {""}, risk : {RatNaN}, bucket : {""}]

\* df.apply(calculate_metrics, axis=1) and df['Safety %'].apply(get_bucket) on one row
Enrich ==
    /\ calc.phase = "input"
    /\ LET m == calculate_metrics(calc.current, calc.strike, calc.type_)
       IN  calc' = [calc EXCEPT !.phase = "enriched", !.safety = m.safety,
                                !.status = m.status, !.risk = m.risk,
                                !.bucket = get_bucket(m.safety)]
    /\ UNCHANGED <<sheet, loadedSheet, loadOk, df, pc, now, cache, fetchLog, lastResolve,
                   kpi, alerts, matrix, marked, pending, issued, removedRows, msg, lastOp,
                   ops>>

\* get_bucket on a margin value
Bucketise ==
    /\ calc.phase = "input"
    /\ calc' = [calc EXCEPT !.phase = "bucketed", !.bucket = get_bucket(calc.val)]
    /\ UNCHANGED <<sheet, loadedSheet, loadOk, df, pc, now, cache, fetchLog, lastResolve,
                   kpi, alerts, matrix, marked, pending, issued, removedRows, msg, lastOp,
                   ops>>

NextCalc == Enrich \/ Bucketise

SpecCalc == InitCalc /\ [][NextCalc]_vars

----------------------------------------------------------------------------
(* Properties *)

StrictlyDescending(s) == \A i \in 1..(Len(s) - 1) : s[i] > s[i + 1]

\* the worksheet ws without the rows at the addresses of A
WithoutAddresses(ws, A) ==
    LET P(i) == i \notin A
        kept == SelectSeq([i \in 1..Len(ws) |-> i], P)
    IN  [k \in 1..Len(kept) |-> ws[kept[k]]]

AddressesOf(frame) == {frame[i]._row_index : i \in 1..Len(frame)}

\* C1: the deletes of a batch are issued in strictly descending address order, each
\* delete call removes the row that was at its address when the batch's data was
\* loaded, and the worksheet is the loaded one minus exactly the deleted addresses.
C1_DescendingDeletes ==
    /\ StrictlyDescending(issued \o pending)
    /\ \A i \in 1..Len(issued) :
          /\ issued[i] \in 2..Len(loadedSheet)
          /\ removedRows[i] = loadedSheet[issued[i]]
    /\ issued # <<>> => sheet = WithoutAddresses(loadedSheet, Range(issued))

\* a batch of two non-adjacent addresses has been deleted completely
C1_Witness ==
    /\ lastOp = "delete" /\ pc = "start"
    /\ issued = <<4, 2>>

\* C2: every record of the frame carries the address of the worksheet row it was
\* read from, through the drop of unparseable dates, the retention filter, the sort,
\* the enrichment and the symbol filter; the addresses handed to the delete are
\* those of the ticked records.
C2_AddressCarried ==
    /\ \A i \in 1..Len(df) :
          LET a == df[i]._row_index
          IN  /\ a \in 2..Len(loadedSheet)
              /\ df[i].Symbol = loadedSheet[a].Symbol
              /\ df[i].Type = loadedSheet[a].Type
              /\ df[i].Strike = to_numeric(loadedSheet[a].Strike)
              /\ df[i].Quantity = to_numeric(loadedSheet[a].Quantity)
              /\ df[i].Expiry = to_datetime(loadedSheet[a].Expiry)
    /\ \A i, j \in 1..Len(df) : i # j => df[i]._row_index # df[j]._row_index
    /\ marked # <<>> =>
          /\ Range(marked) \subseteq Range(df)
          /\ Range(issued \o pending) = AddressesOf(marked)

\* a delete is under way on a frame that lost a row on load and was reordered by the sort
C2_Witness ==
    /\ pc = "deleting" /\ marked # <<>>
    /\ Len(df) = 2 /\ Len(loadedSheet) = 4
    /\ df[1]._row_index > df[2]._row_index

\* C3 as stated: a resolution never queries the source for a symbol whose price was
\* fetched less than the TTL ago, whatever list it was fetched with.
C3_PerSymbolCache ==
    lastResolve.queried =>
        \A s \in Range(lastResolve.key) :
            \/ lastResolve.prevSymbol[s] = -1
            \/ lastResolve.at - lastResolve.prevSymbol[s] >= HalfSeconds(TTL)

\* C4 as stated: no record with an unparsed Strike, Quantity or Expiry is in the frame.
C4_MalformedDropped ==
    \A i \in 1..Len(df) :
        (~df[i].Strike.nan) /\ (~df[i].Quantity.nan) /\ (~df[i].Expiry.nat)

\* C5: a row with a parseable expiry is in the loaded frame iff its expiry is on or
\* after the day before today.
C5_Retention ==
    loadOk =>
        \A a \in 2..Len(loadedSheet) :
            LET e == to_datetime(loadedSheet[a].Expiry)
            IN  (~e.nat) => (a \in AddressesOf(df) <=> e.d >= Today - 1)

\* a load kept a row expiring yesterday and dropped one that expired the day before
C5_Witness ==
    /\ loadOk
    /\ \E i \in 1..Len(df) : df[i].Expiry.d = Today - 1
    /\ \E a \in 2..Len(loadedSheet) :
          /\ to_datetime(loadedSheet[a].Expiry) = Date(Today - 2)
          /\ a \notin AddressesOf(df)

\* C6: for a Put or Call, a price <= 0 gives margin 0 and not ITM; a price > 0 gives
\* ITM exactly when the margin is negative, exactly when (Put and price < strike) or
\* (Call and price > strike); a price equal to the strike gives margin 0 and not ITM.
C6_Classification ==
    (calc.phase = "enriched" /\ calc.type_ \in {"Put", "Call"}) =>
        LET itm == calc.status = "red"
            below == (~calc.strike.nan) /\ calc.current < calc.strike.v
            above == (~calc.strike.nan) /\ calc.current > calc.strike.v
            negative == (~calc.safety.nan) /\ calc.safety.n < 0
        IN  /\ calc.current <= 0 => (calc.safety = Rat(0, 1) /\ ~itm)
            /\ calc.current > 0 =>
                  /\ itm <=> negative
                  /\ itm <=> ((calc.type_ = "Put" /\ below) \/ (calc.type_ = "Call" /\ above))
                  /\ calc.strike = Num(calc.current) =>
                        (calc.safety.n = 0 /\ (~calc.safety.nan) /\ ~itm)

\* a Put whose price is exactly at the strike has been enriched
C6_Witness ==
    /\ calc.phase = "enriched" /\ calc.type_ = "Put"
    /\ calc.current > 0 /\ calc.strike = Num(calc.current)
    /\ calc.status = "green"

\* C7: every margin gets one of the four buckets, and a number gets the bucket of its
\* interval: below 0, [0, 5), [5, 10), 10 and above.
C7_BucketPartition ==
    calc.phase = "bucketed" =>
        /\ calc.bucket \in {"<0%", "0-5%", "5-10%", ">10%"}
        /\ (~calc.val.nan) =>
              /\ calc.bucket = "<0%" <=> calc.val.n < 0
              /\ calc.bucket = "0-5%" <=> (0 <= calc.val.n /\ calc.val.n < 5 * calc.val.d)
              /\ calc.bucket = "5-10%" <=>
                    (5 * calc.val.d <= calc.val.n /\ calc.val.n < 10 * calc.val.d)
              /\ calc.bucket = ">10%" <=> 10 * calc.val.d <= calc.val.n

\* the margin 5 has been put into its bucket
C7_Witness ==
    /\ calc.phase = "bucketed"
    /\ calc.val = Rat(10, 2)
    /\ calc.bucket = "5-10%"

\* C8 as stated: in every month row of the matrix the displayed bucket cells add up
\* to the notional of the month's positions of the type, and to the Total cell.
C8_RowSums ==
    matrix.shown =>
        \A m \in matrix.index :
            LET cells == [k \in 1..Len(matrix.columns) |->
                            [Notional |-> Num(matrix.cell[m][matrix.columns[k]])]]
            IN  /\ NotionalSum(cells) = NotionalSum(InMonth(OfType(df, matrix.view), m))
                /\ matrix.total[m] = Num(NotionalSum(cells))

\* C9 as stated: after a delete call failed, no further delete of the batch was
\* issued and the message names the addresses that were deleted.
C9_ReportsDeleted ==
    (pc = "done" /\ lastOp = "delfail") =>
        /\ sheet = WithoutAddresses(loadedSheet, Range(issued))
        /\ msg.addresses = issued

\* C10: wherever the script computes from the frame (enrichment and KPIs, the form,
\* alerts and matrix, the full list and the start of a delete) the worksheet is the
\* one the frame was loaded from: after an append or a completed batch the script
\* reruns and reloads; a finished run whose worksheet has changed since its load
\* either ended on a failed delete or shows no frame at all.
C10_FreshReload ==
    /\ pc \in {"process", "form", "views", "list"} => sheet = loadedSheet
    /\ (pc = "done" /\ sheet # loadedSheet) => (lastOp = "delfail" \/ df = <<>>)

\* the KPIs have been computed from a frame reloaded after an append
C10_Witness ==
    /\ lastOp = "add" /\ pc = "form"
    /\ df # <<>> /\ sheet = loadedSheet
    /\ kpi.total_count = Len(df)

====
